---- MODULE Spec2Model ----
(***************************************************************************)
(* LAS - Linux App Store (src/las.py, src/core/password_dialog.py).        *)
(*                                                                         *)
(* Spec        the LASWindow: package requests (install, uninstall,        *)
(*             update all, package info) and the worker threads they start *)
(* SpecNav     the LASWindow: navigation between the views and the search  *)
(*             entry                                                       *)
(* SpecSearch  one call of LASWindow.search_packages                       *)
(* SpecCred    the credential prompt around PasswordDialog                 *)
(*                                                                         *)
(* In Spec and SpecNav a step is either one handler of the UI loop, run to *)
(* its end, or one step of one worker thread.                              *)
(* A message dialog (dialog.run(); dialog.destroy()) is shown and          *)
(* dismissed inside the handler that opens it.                             *)
(***************************************************************************)
EXTENDS Integers, Sequences, FiniteSets, TLC

VARIABLES
    current_view,      \* LASWindow.current_view
    current_category,  \* LASWindow.current_category
    active,            \* names of the category buttons carrying the "active" class
    spinner,           \* TRUE while LASWindow.spinner is started
    main_box,          \* children of LASWindow.main_box: flowboxes and stray labels
    info_dialog,       \* the PackageInfoDialog: "none", "loading", "info", "failed"
    search_text,       \* text of LASWindow.search_entry
    has_timeout,       \* hasattr(self, '_search_timeout')
    timer_pending,     \* number of GLib timeout sources of on_search still scheduled
    threads,           \* every Thread started so far, in start order
    apt_lock,          \* 0 = free, else the index of the thread holding apt_lock
    idle,              \* callbacks queued with GLib.idle_add, oldest first
    uninstalls,        \* number of uninstall_package calls made
    enters,            \* number of "activate" signals of the search entry handled
    pkexec,            \* pkexec is installed on the host: shutil.which finds it
    found,             \* number of app tuples returned by cache queries so far
    clicks,            \* number of navigation events handled so far
    requests,          \* number of card and Update All clicks handled so far
    \* one call of LASWindow.search_packages
    system_arch,       \* platform.machine()
    cache,             \* the pkg.name of the packages of apt.Cache(), in iteration order
    search_query,      \* the argument `query`
    search_pc,         \* "idle", "entry", "loop" or "returned"
    cursor,            \* position of the `for pkg in cache` loop
    seen,              \* the local set `seen`
    results,           \* the pkg_name of the tuples of `results`, or of the list returned
    \* the credential prompt around PasswordDialog
    entry,             \* text of PasswordDialog.entry
    win_x,             \* offset of the dialog window from its position, moved by shake
    shake_step,        \* number of win.move calls of the running shake
    cred_pc,           \* "idle", "prompt", "validating", "shake", "lockout", "task", "ended"
    credential,        \* the secret handed to validation, <<>> when none is held
    attempts,          \* the attempt counter
    cred_notices,      \* the lockout notices shown, oldest first
    terminate,         \* the process has been asked to terminate
    task_started,      \* the long-running task has been started
    \* the progress reflector
    progress,          \* the progress value, in hundredths
    prog_step,         \* the fixed increment of one tick, in hundredths
    task_done,         \* the completion flag, set by the background task
    phase,             \* "idle", "priming", "draining" or "done"
    ticking,           \* the tick timer is scheduled
    completions,       \* number of calls of the completion callback
    \* the privileged command runner
    run_pc,            \* "idle", "launch", "running", "succeeded", "failed", "unstarted"
    output,            \* the captured output of the command, a sequence of pieces of text
    report,            \* the message reported: [kind, text]
    \* load_installed of show_installed
    installed_cache,   \* the packages that `for pkg in cache` yields, in order
    installed_pc,      \* "idle", "entry", "loop" or "done"
    installed_pos,     \* number of packages the loop has been through
    app_list,          \* `apps`, the list being built
    count,             \* the counter of the loop
    installed_apps     \* the list handed to finish_loading_installed

windowVars ==
    <<current_view, current_category, active, spinner, main_box, info_dialog,
      search_text, has_timeout, timer_pending, threads, apt_lock, idle,
      uninstalls, enters, pkexec, found, clicks, requests>>

searchVars == <<system_arch, cache, search_query, search_pc, cursor, seen, results>>

credVars ==
    <<entry, win_x, shake_step, cred_pc, credential, attempts, cred_notices,
      terminate, task_started>>

progVars == <<progress, prog_step, task_done, phase, ticking, completions>>

runVars == <<run_pc, output, report>>

listVars ==
    <<installed_cache, installed_pc, installed_pos, app_list, count, installed_apps>>

vars == <<windowVars, searchVars, credVars, progVars, runVars, listVars>>

\* what a step of the window leaves alone
other == <<searchVars, credVars, progVars, runVars, listVars>>

\* what a step of search_packages leaves alone
notSearch == <<windowVars, credVars, progVars, runVars, listVars>>

\* what a step of the credential prompt leaves alone
notCred == <<windowVars, searchVars, progVars, runVars, listVars>>

\* what a step of the progress reflector leaves alone
notProg == <<windowVars, searchVars, credVars, runVars, listVars>>

\* what a step of the privileged command runner leaves alone
notRun == <<windowVars, searchVars, credVars, progVars, listVars>>

\* what a step of load_installed leaves alone
notList == <<windowVars, searchVars, credVars, progVars, runVars>>

---------------------------------------------------------------------------
(* Bounds of the model *)

\* navigation events (view buttons, category buttons, edits of the search
\* entry, Enter) handled in one run
MaxClicks == 1
\* clicks on the buttons of a card and on Update All handled in one run
MaxRequests == 1
\* app tuples that the package cache yields over all queries of one run
MaxFound == 1
\* length of the text typed into the search entry
MaxText == 1
\* worker threads still running when the user acts again
MaxBusy == 1
\* packages in the apt cache that search_packages iterates over
MaxCache == 3
\* length of the text typed into the password entry
MaxSecret == 2
\* the largest increment of one tick of the progress reflector, in hundredths
MaxStep == 3
\* pieces of text in the captured output of a privileged command
MaxOutput == 4
\* length of the pattern of packages that a cache repeats
MaxPeriod == 2

---------------------------------------------------------------------------
(* Program constants *)

\* APP_CATEGORIES.keys(), in dictionary order (the first four of the eight)
APP_CATEGORIES == <<"Development", "Graphics", "Internet", "Office">>

\* list(APP_CATEGORIES.items())[:3] in show_home
PreviewCount == 3

\* `count < 100` in load_installed
InstalledLimit == 100

PreviewCats == SubSeq(APP_CATEGORIES, 1, PreviewCount)

Range(s) == {s[i] : i \in DOMAIN s}

\* the keys of LASWindow.category_buttons
category_buttons == {"All"} \cup Range(APP_CATEGORIES)

\* characters the user can type: a blank, a letter, and a character that the
\* pattern ^[\w\s.-]*$ of search_packages rejects
Alphabet == {" ", "v", "+"}

Texts == UNION {[1..n -> Alphabet] : n \in 0..MaxText}

---------------------------------------------------------------------------
(* Text of the search entry *)

\* str.strip() for the blank of Alphabet
RECURSIVE lstrip(_)
lstrip(s) == IF s # <<>> /\ Head(s) = " " THEN lstrip(Tail(s)) ELSE s

RECURSIVE rstrip(_)
rstrip(s) == IF s # <<>> /\ s[Len(s)] = " " THEN rstrip(SubSeq(s, 1, Len(s) - 1)) ELSE s

strip(s) == rstrip(lstrip(s))

---------------------------------------------------------------------------
(* Worker threads and queued callbacks *)

\* A Thread(target=...) object.  kind is the target function; box is the flowbox
\* (or "dialog") its callback will fill and att tells whether that widget is
\* still a child of main_box (resp. still open); query is the search query;
\* cmds are the external commands
\* launched and exits their exit statuses; notes are the notices shown for it;
\* idx is the loop index of the show_home iteration that started a preview
\* thread.
Thr(kind, box, att, idx) ==
    [kind |-> kind, pc |-> "start", box |-> box, att |-> att, idx |-> idx,
     query |-> <<>>, cmds |-> <<>>, exits |-> <<>>, notes |-> <<>>]

Loaders == {"load_featured", "load_category_apps", "load_category", "load_installed",
            "load_updates", "update_results", "load_info"}

Requests == {"do_install", "do_uninstall", "do_update_all"}

\* a callback handed to GLib.idle_add by thread tid.  Its arguments are the
\* widget to fill (box, att; idx for a preview thread) and the list of the
\* query, which is an input of the model: the UI loop draws it when the
\* callback reads it (Results, Bindings)
Cb(fn, tid, box, att, idx) ==
    [fn |-> fn, tid |-> tid, box |-> box, att |-> att, idx |-> idx]

\* a flowbox removed from main_box: which one it was no longer shows
Detached(r) ==
    IF r.box # "dialog" THEN [r EXCEPT !.att = FALSE, !.box = "", !.idx = 0] ELSE r

\* clear_main_content: every flowbox that was in main_box is detached
DetachT(th) == [i \in DOMAIN th |-> Detached(th[i])]

DetachQ(q) == [i \in DOMAIN q |-> Detached(q[i])]

\* main_box after clear_main_content and the packing of empty flowboxes
Boxes(names) == [boxes |-> [n \in names |-> <<>>], labels |-> 0]

\* the entries (labels and cards) visible in main_box
Entries == UNION {Range(main_box.boxes[n]) : n \in DOMAIN main_box.boxes}

---------------------------------------------------------------------------
(* Views.  A view operator maps the window state u (a record of current_view,
   current_category, the active buttons, the spinner, main_box, the threads
   and the idle queue) to the state the method leaves. *)

Window ==
    [view |-> current_view, cat |-> current_category, act |-> active,
     spin |-> spinner, box |-> main_box, th |-> threads, q |-> idle]

\* LASWindow.clear_main_content
clear_main_content(u) ==
    [u EXCEPT !.box = Boxes({}), !.th = DetachT(u.th), !.q = DetachQ(u.q)]

\* LASWindow.update_category_buttons
update_category_buttons(u, active_category) ==
    [u EXCEPT !.act = {name \in category_buttons : name = active_category}]

\* LASWindow.show_home: four sections, one loader thread for each
show_home(u) ==
    LET c == clear_main_content([u EXCEPT !.view = "home"])
    IN  [c EXCEPT
            !.box = Boxes({"featured"} \cup Range(PreviewCats)),
            !.th = c.th \o <<Thr("load_featured", "featured", TRUE, 0)>>
                        \o [i \in 1..PreviewCount |->
                                Thr("load_category_apps", "", TRUE, i)]]

\* one flowbox, the spinner started and one loader thread: the common tail of
\* show_category, show_installed, show_updates and on_search
OneBox(c, kind, box) ==
    [c EXCEPT !.box = Boxes({box}), !.spin = TRUE,
              !.th = c.th \o <<Thr(kind, box, TRUE, 0)>>]

\* LASWindow.show_category
show_category(u, category) ==
    LET b == update_category_buttons(
                 [u EXCEPT !.view = "category", !.cat = category], category)
        c == clear_main_content(b)
    IN  IF category = "All" THEN show_home(c)
        ELSE OneBox(c, "load_category", "category")

\* LASWindow.show_installed
show_installed(u) ==
    OneBox(clear_main_content([u EXCEPT !.view = "installed"]),
           "load_installed", "installed")

\* LASWindow.show_updates
show_updates(u) ==
    OneBox(clear_main_content([u EXCEPT !.view = "updates"]),
           "load_updates", "updates")

\* an on_search without the `if not query` branch
on_search_NoReset(u, text) ==
    LET c == OneBox(clear_main_content([u EXCEPT !.view = "search"]),
                    "update_results", "search")
    IN  [c EXCEPT !.th[Len(c.th)].query = strip(text)]

\* LASWindow.on_search, for the entry text `text`
on_search(u, text) ==
    LET query == strip(text)
    IN  IF query = <<>> THEN show_home(u)
        ELSE LET c == OneBox(clear_main_content([u EXCEPT !.view = "search"]),
                             "update_results", "search")
             IN  [c EXCEPT !.th[Len(c.th)].query = query]

\* LASWindow.refresh_current_view
refresh_current_view(u, text) ==
    CASE u.view = "home" -> show_home(u)
      [] u.view = "installed" -> show_installed(u)
      [] u.view = "updates" -> show_updates(u)
      [] u.view = "category" -> show_category(u, u.cat)
      [] u.view = "search" -> on_search(u, text)
      [] OTHER -> u

\* the window state u becomes the next state
Becomes(u) ==
    /\ current_view' = u.view
    /\ current_category' = u.cat
    /\ active' = u.act
    /\ spinner' = u.spin
    /\ main_box' = u.box
    /\ threads' = u.th
    /\ idle' = u.q

---------------------------------------------------------------------------
(* The UI loop: user events *)

\* the threads that have not ended
Live == {t \in DOMAIN threads : threads[t].pc \notin {"done", "died"}}

\* the main window takes an event: no modal PackageInfoDialog is running, and
\* the user waits while more than MaxBusy threads are running
CanAct ==
    /\ info_dialog = "none"
    /\ Cardinality(Live) <= MaxBusy

\* a navigation event
CanClick == clicks < MaxClicks /\ CanAct

\* a click on a card button or on Update All
CanRequest == requests < MaxRequests /\ CanAct


\* "clicked" of home_button
ClickHome ==
    /\ UNCHANGED other
    /\ CanClick
    /\ Becomes(show_home(Window))
    /\ clicks' = clicks + 1
    /\ UNCHANGED <<info_dialog, search_text, has_timeout, timer_pending, apt_lock,
                   uninstalls, found, requests, enters, pkexec>>

\* "clicked" of a category button
ClickCategory(category) ==
    /\ UNCHANGED other
    /\ CanClick
    /\ Becomes(show_category(Window, category))
    /\ clicks' = clicks + 1
    /\ UNCHANGED <<info_dialog, search_text, has_timeout, timer_pending, apt_lock,
                   uninstalls, found, requests, enters, pkexec>>

\* "clicked" of installed_button
ClickInstalled ==
    /\ UNCHANGED other
    /\ CanClick
    /\ Becomes(show_installed(Window))
    /\ clicks' = clicks + 1
    /\ UNCHANGED <<info_dialog, search_text, has_timeout, timer_pending, apt_lock,
                   uninstalls, found, requests, enters, pkexec>>

\* "clicked" of updates_button
ClickUpdates ==
    /\ UNCHANGED other
    /\ CanClick
    /\ Becomes(show_updates(Window))
    /\ clicks' = clicks + 1
    /\ UNCHANGED <<info_dialog, search_text, has_timeout, timer_pending, apt_lock,
                   uninstalls, found, requests, enters, pkexec>>

\* `if hasattr(self, '_search_timeout'): GLib.source_remove(self._search_timeout)`:
\* the number of sources scheduled afterwards.  _search_timeout is the source
\* scheduled last, which is scheduled still when any is
source_remove_Skipped(pending, known) == pending

source_remove(pending, known) ==
    IF known /\ pending > 0 THEN pending - 1 ELSE pending

\* LASWindow.on_search_changed: the user changes the entry text to t
on_search_changed(t) ==
    /\ UNCHANGED other
    /\ CanClick
    /\ t # search_text
    /\ search_text' = t
    /\ IF strip(t) # <<>>
         THEN /\ has_timeout' = TRUE
              /\ timer_pending' = source_remove(timer_pending, has_timeout) + 1
         ELSE /\ has_timeout' = has_timeout
              /\ timer_pending' = source_remove(timer_pending, has_timeout)
    /\ clicks' = clicks + 1
    /\ UNCHANGED <<current_view, current_category, active, spinner, main_box,
                   info_dialog, threads, apt_lock, idle, uninstalls, found, requests, enters, pkexec>>

\* "activate" of search_entry: on_search, a user event
Activate ==
    /\ UNCHANGED other
    /\ CanClick
    /\ Becomes(on_search(Window, search_text))
    /\ enters' = enters + 1
    /\ clicks' = clicks + 1
    /\ UNCHANGED <<info_dialog, search_text, has_timeout, timer_pending, apt_lock,
                   uninstalls, found, requests, pkexec>>

\* the 500 ms timeout fires: on_search, which returns False and so ends the source
TimerFire ==
    /\ UNCHANGED other
    /\ timer_pending > 0
    /\ timer_pending' = timer_pending - 1
    /\ Becomes(on_search(Window, search_text))
    /\ UNCHANGED <<info_dialog, search_text, has_timeout, apt_lock, uninstalls,
                   found, clicks, requests, enters, pkexec>>

\* LASWindow.install_package, from the Install button of a card
install_package ==
    /\ UNCHANGED other
    /\ CanRequest
    /\ "Install" \in Entries
    /\ threads' = Append(threads, Thr("do_install", "", FALSE, 0))
    /\ requests' = requests + 1
    /\ UNCHANGED <<current_view, current_category, active, spinner, main_box,
                   info_dialog, search_text, has_timeout, timer_pending, apt_lock,
                   idle, uninstalls, found, clicks, enters, pkexec>>

\* LASWindow.uninstall_package, from the Uninstall button of a card: the name
\* Threads is not defined, the call raises NameError and no thread is started
uninstall_package ==
    /\ UNCHANGED other
    /\ CanRequest
    /\ "Uninstall" \in Entries
    /\ uninstalls' = uninstalls + 1
    /\ requests' = requests + 1
    /\ UNCHANGED <<current_view, current_category, active, spinner, main_box,
                   info_dialog, search_text, has_timeout, timer_pending, threads,
                   apt_lock, idle, found, clicks, enters, pkexec>>

\* LASWindow.update_all_packages, from the Update All button of the updates view
update_all_packages ==
    /\ UNCHANGED other
    /\ CanRequest
    /\ "updates" \in DOMAIN main_box.boxes
    /\ threads' = Append(threads, Thr("do_update_all", "", FALSE, 0))
    /\ requests' = requests + 1
    /\ UNCHANGED <<current_view, current_category, active, spinner, main_box,
                   info_dialog, search_text, has_timeout, timer_pending, apt_lock,
                   idle, uninstalls, found, clicks, enters, pkexec>>

\* LASWindow.show_package_info up to dialog.run(): PackageInfoDialog.__init__
show_package_info ==
    /\ UNCHANGED other
    /\ CanRequest
    /\ Entries \cap {"Install", "Uninstall"} # {}
    /\ info_dialog' = "loading"
    /\ threads' = Append(threads, Thr("load_info", "dialog", TRUE, 0))
    /\ requests' = requests + 1
    /\ UNCHANGED <<current_view, current_category, active, spinner, main_box,
                   search_text, has_timeout, timer_pending, apt_lock, idle,
                   uninstalls, found, clicks, enters, pkexec>>

\* the user closes the PackageInfoDialog: dialog.run() returns, dialog.destroy()
CloseInfo ==
    /\ UNCHANGED other
    /\ info_dialog # "none"
    /\ info_dialog' = "none"
    /\ threads' = [i \in DOMAIN threads |->
                     IF threads[i].box = "dialog"
                       THEN [threads[i] EXCEPT !.att = FALSE] ELSE threads[i]]
    /\ idle' = [i \in DOMAIN idle |->
                     IF idle[i].box = "dialog"
                       THEN [idle[i] EXCEPT !.att = FALSE] ELSE idle[i]]
    /\ UNCHANGED <<current_view, current_category, active, spinner, main_box,
                   search_text, has_timeout, timer_pending, apt_lock, uninstalls,
                   found, clicks, requests, enters, pkexec>>

---------------------------------------------------------------------------
(* The UI loop: callbacks queued with GLib.idle_add *)

\* LASWindow.populate_flowbox: a label (empty_message) when apps is empty, else
\* one card per app;
\* create_app_card starts one icon thread per card (load_icon_async)
populate_flowbox(u, flowbox, att, apps) ==
    LET new == IF apps = <<>> THEN <<"label">> ELSE apps
        icons == [i \in 1..Len(apps) |-> Thr("do_load", "", FALSE, 0)]
    IN  [u EXCEPT
            !.box = IF att
                      THEN [u.box EXCEPT !.boxes[flowbox] = u.box.boxes[flowbox] \o new]
                      ELSE u.box,
            !.th = u.th \o icons]

\* finish_loading_category, finish_loading_installed, finish_loading_updates
finish_loading(u, flowbox, att, apps) ==
    populate_flowbox([u EXCEPT !.spin = FALSE], flowbox, att, apps)

\* LASWindow.finish_search: the no-results label is packed into main_box itself
finish_search(u, flowbox, att, packages) ==
    LET v == [u EXCEPT !.spin = FALSE]
    IN  IF packages = <<>>
          THEN [v EXCEPT !.box.labels = v.box.labels + 1]
          ELSE populate_flowbox(v, flowbox, att, packages)

\* a MessageDialog is run and destroyed for the request of thread cb.tid
Notice(u, cb) == [u EXCEPT !.th[cb.tid].notes = Append(u.th[cb.tid].notes, cb.fn)]

Successes == {"show_install_success", "show_uninstall_success", "show_update_success"}

Errors == {"show_install_error", "show_uninstall_error", "show_update_error"}

\* the flowbox a callback fills.  The lambda of a preview thread reads the loop
\* variables of show_home when the thread starts to run: those of its own
\* iteration or of a later one
Bindings(cb) ==
    IF cb.idx > 0 THEN {PreviewCats[j] : j \in cb.idx..PreviewCount}
    ELSE {cb.box}

\* what the loader hands to its callback: nothing (an empty result, the
\* except path or an early return), or, while the cache has more to give, one
\* app, installed or not; for update_info nothing or the info dictionary
Results(cb) ==
    {<<>>} \cup
    (IF found < MaxFound
       THEN CASE cb.fn = "finish_installed" -> {<<"Uninstall">>}
              [] cb.fn = "update_info" -> {}
              [] OTHER -> {<<"Install">>, <<"Uninstall">>}
       ELSE {}) \cup
    (IF cb.fn = "update_info" THEN {<<"info">>} ELSE {})

\* the window state after the callback cb has run with the list apps on flowbox
Callback(u, cb, flowbox, apps) ==
    CASE cb.fn = "populate_flowbox" -> populate_flowbox(u, flowbox, cb.att, apps)
      [] cb.fn \in {"finish_loading", "finish_installed"}
            -> finish_loading(u, flowbox, cb.att, apps)
      [] cb.fn = "finish_search" -> finish_search(u, flowbox, cb.att, apps)
      [] cb.fn \in Successes -> refresh_current_view(Notice(u, cb), search_text)
      [] cb.fn \in Errors -> Notice(u, cb)
      [] OTHER -> u

\* PackageInfoDialog.update_info, on the dialog that is still open
update_info(cb, info) ==
    IF cb.fn = "update_info" /\ cb.att
      THEN (IF info = <<>> THEN "failed" ELSE "info")
      ELSE info_dialog

\* the UI loop runs the oldest queued callback
RunIdle ==
    /\ UNCHANGED other
    /\ idle # <<>>
    /\ \E flowbox \in Bindings(Head(idle)) :
       \E apps \in Results(Head(idle)) :
          /\ Becomes(Callback([Window EXCEPT !.q = Tail(idle)], Head(idle),
                              flowbox, apps))
          /\ info_dialog' = update_info(Head(idle), apps)
          /\ found' = found + (IF apps \in {<<>>, <<"info">>} THEN 0 ELSE 1)
    /\ UNCHANGED <<search_text, has_timeout, timer_pending, apt_lock, uninstalls,
                   clicks, requests, enters, pkexec>>

---------------------------------------------------------------------------
(* Worker threads *)

\* a loader that reads the cache without taking apt_lock
CanAcquire_Unlocked(t) == TRUE

\* `with apt_lock:` lets a thread in when the lock is free
CanAcquire(t) == apt_lock = 0

\* re.match(r'^[\w\s.-]*$', query) in search_packages
ValidQuery(query) == \A i \in DOMAIN query : query[i] \notin {"+", ":"}

\* the callback a loader queues
LoaderCallback(kind) ==
    CASE kind \in {"load_featured", "load_category_apps"} -> "populate_flowbox"
      [] kind = "load_category" -> "finish_loading"
      [] kind \in {"load_installed", "load_updates"} -> "finish_installed"
      [] kind = "update_results" -> "finish_search"
      [] kind = "load_info" -> "update_info"

\* a thread that has ended keeps its kind, its commands and its notices
Ended(th, pc) ==
    [th EXCEPT !.pc = pc, !.box = "", !.att = FALSE, !.idx = 0, !.query = <<>>]

\* a loader that stops the spinner and adds its label itself, instead of
\* handing the callback to GLib.idle_add
Queue_Direct(t) ==
    /\ idle' = idle
    /\ threads' = [threads EXCEPT ![t] = Ended(threads[t], "done")]
    /\ spinner' = FALSE
    /\ main_box' = [main_box EXCEPT !.labels = main_box.labels + 1]
    /\ UNCHANGED <<current_view, current_category, active, info_dialog>>

\* the callback of loader t is handed to GLib.idle_add
Queue(t) ==
    /\ idle' = Append(idle, Cb(LoaderCallback(threads[t].kind), 0, threads[t].box,
                               threads[t].att, threads[t].idx))
    /\ threads' = [threads EXCEPT ![t] = Ended(threads[t], "done")]
    /\ UNCHANGED <<current_view, current_category, active, spinner, main_box,
                   info_dialog>>

\* search_packages returns [] before it touches the cache
EarlyReturn(t) ==
    /\ UNCHANGED other
    /\ threads[t].kind = "update_results"
    /\ threads[t].pc = "start"
    /\ ~ValidQuery(threads[t].query)
    /\ Queue(t)
    /\ UNCHANGED <<search_text, has_timeout, timer_pending, apt_lock,
                   uninstalls, found, clicks, requests, enters, pkexec>>

\* a loader enters `with apt_lock:`
Acquire(t) ==
    /\ UNCHANGED other
    /\ threads[t].kind \in Loaders
    /\ threads[t].pc = "start"
    /\ threads[t].kind = "update_results" => ValidQuery(threads[t].query)
    /\ CanAcquire(t)
    /\ apt_lock' = t
    /\ threads' = [threads EXCEPT ![t].pc = "cs"]
    /\ UNCHANGED <<current_view, current_category, active, spinner, main_box,
                   info_dialog, search_text, has_timeout, timer_pending, idle,
                   uninstalls, found, clicks, requests, enters, pkexec>>

\* a loader that keeps apt_lock when apt.Cache() raises: acquire() and
\* release() around the body, without `with` or try/finally
Query_Leaky(t) ==
    /\ UNCHANGED other
    /\ threads[t].pc = "cs"
    /\ Queue(t)
    /\ apt_lock' \in {0, apt_lock}
    /\ UNCHANGED <<search_text, has_timeout, timer_pending,
                   uninstalls, found, clicks, requests, enters, pkexec>>

\* the body of `with apt_lock:` and what follows it: apt.Cache() is read to the
\* end, or raises; the lock is released on either way out, and the callback is
\* queued by the normal path or by the except clause.  No step of another
\* thread between the release and idle_add changes what the UI loop can see
Query(t) ==
    /\ UNCHANGED other
    /\ threads[t].pc = "cs"
    /\ Queue(t)
    /\ apt_lock' = 0
    /\ UNCHANGED <<search_text, has_timeout, timer_pending,
                   uninstalls, found, clicks, requests, enters, pkexec>>

\* the external command a request thread runs next
Command(th) ==
    CASE th.kind = "do_install" -> "install"
      [] th.kind = "do_uninstall" -> "remove"
      [] th.kind = "do_update_all" -> IF th.cmds = <<>> THEN "update" ELSE "upgrade"

\* the notices of a request
SuccessOf(kind) ==
    CASE kind = "do_install" -> "show_install_success"
      [] kind = "do_uninstall" -> "show_uninstall_success"
      [] kind = "do_update_all" -> "show_update_success"

ErrorOf(kind) ==
    CASE kind = "do_install" -> "show_install_error"
      [] kind = "do_uninstall" -> "show_uninstall_error"
      [] kind = "do_update_all" -> "show_update_error"

\* a request thread ends by queueing the notice fn
EndWith(t, fn) ==
    /\ idle' = Append(idle, Cb(fn, t, "", FALSE, 0))
    /\ threads' = [threads EXCEPT ![t] = Ended(threads[t], "done")]

\* shutil.which("pkexec"): absent, the error notice is queued and the thread returns
Which(t) ==
    /\ UNCHANGED other
    /\ threads[t].kind \in Requests
    /\ threads[t].pc = "start"
    /\ IF pkexec
         THEN threads' = [threads EXCEPT ![t].pc = "run"] /\ idle' = idle
         ELSE EndWith(t, ErrorOf(threads[t].kind))
    /\ UNCHANGED <<current_view, current_category, active, spinner, main_box,
                   info_dialog, search_text, has_timeout, timer_pending, apt_lock,
                   uninstalls, found, clicks, requests, enters, pkexec>>

\* what the except clauses of a request thread catch: CalledProcessError only
Caught(exc) == exc = "CalledProcessError"

\* subprocess.run starts the command, or raises OSError before the command runs
Launch(t) ==
    /\ UNCHANGED other
    /\ threads[t].pc = "run"
    /\ \E started \in BOOLEAN :
          IF started
            THEN threads' = [threads EXCEPT
                                ![t].pc = "running",
                                ![t].cmds = Append(threads[t].cmds, Command(threads[t]))]
                 /\ idle' = idle
            ELSE IF Caught("OSError")
                   THEN EndWith(t, ErrorOf(threads[t].kind))
                   ELSE threads' = [threads EXCEPT ![t] = Ended(threads[t], "died")]
                        /\ idle' = idle
    /\ UNCHANGED <<current_view, current_category, active, spinner, main_box,
                   info_dialog, search_text, has_timeout, timer_pending, apt_lock,
                   uninstalls, found, clicks, requests, enters, pkexec>>

\* the thread t after its command has exited with `status`
Exited(t, status) == [threads EXCEPT ![t].exits = Append(threads[t].exits, status)]

\* a request thread whose command has exited ends by queueing the notice fn
ExitWith(t, status, fn) ==
    /\ idle' = Append(idle, Cb(fn, t, "", FALSE, 0))
    /\ threads' = [Exited(t, status) EXCEPT ![t] = Ended(Exited(t, status)[t], "done")]

\* the exception subprocess.run raises once the command has exited: with
\* text=True the captured output is decoded first, strictly, and check=True
\* turns a non-zero status into CalledProcessError
Raised(status, decodable) ==
    IF ~decodable THEN "UnicodeDecodeError"
    ELSE IF status # 0 THEN "CalledProcessError"
    ELSE "none"

\* the command exits: status 0 leads to the next command or to the success
\* notice, an exception to the except clause, or past it
Exit(t) ==
    /\ UNCHANGED other
    /\ threads[t].pc = "running"
    /\ \E status \in {0, 1}, decodable \in BOOLEAN :
          LET exc == Raised(status, decodable)
          IN  IF exc = "none"
                THEN IF threads[t].kind = "do_update_all" /\ Len(threads[t].cmds) = 1
                       THEN threads' = [Exited(t, status) EXCEPT ![t].pc = "run"]
                            /\ idle' = idle
                       ELSE ExitWith(t, status, SuccessOf(threads[t].kind))
                ELSE IF Caught(exc)
                       THEN ExitWith(t, status, ErrorOf(threads[t].kind))
                       ELSE threads' = [Exited(t, status) EXCEPT
                                           ![t] = Ended(Exited(t, status)[t], "died")]
                            /\ idle' = idle
    /\ UNCHANGED <<current_view, current_category, active, spinner, main_box,
                   info_dialog, search_text, has_timeout, timer_pending, apt_lock,
                   uninstalls, found, clicks, requests, enters, pkexec>>

\* load_icon_async.do_load: get_icon_for_package returns a pixbuf (or None) and
\* update_icon is queued, or it raises and the thread ends without a callback
do_load(t) ==
    /\ UNCHANGED other
    /\ threads[t].kind = "do_load"
    /\ threads[t].pc = "start"
    /\ \E raised \in BOOLEAN :
          IF raised
            THEN threads' = [threads EXCEPT ![t] = Ended(threads[t], "died")]
                 /\ idle' = idle
            ELSE threads' = [threads EXCEPT ![t] = Ended(threads[t], "done")]
                 /\ idle' = Append(idle, Cb("update_icon", 0, "", FALSE, 0))
    /\ UNCHANGED <<current_view, current_category, active, spinner, main_box,
                   info_dialog, search_text, has_timeout, timer_pending, apt_lock,
                   uninstalls, found, clicks, requests, enters, pkexec>>

---------------------------------------------------------------------------
(* The window after LASWindow.__init__: the home view, whose four loader
   threads have been started *)

Blank ==
    [view |-> "home", cat |-> "All", act |-> {"All"}, spin |-> FALSE,
     box |-> Boxes({}), th |-> <<>>, q |-> <<>>]

\* the window showing the view u, with `text` in the search entry and
\* `pending` searches scheduled, no request made and no package found so far
Shows(u, text, known, pending) ==
    /\ current_view = u.view
    /\ current_category = u.cat
    /\ active = u.act
    /\ spinner = u.spin
    /\ main_box = u.box
    /\ threads = u.th
    /\ idle = u.q
    /\ info_dialog = "none"
    /\ search_text = text
    /\ has_timeout = known
    /\ timer_pending = pending
    /\ apt_lock = 0
    /\ uninstalls = 0
    /\ enters = 0
    /\ found = 0
    /\ clicks = 0
    /\ requests = 0

\* the window after LASWindow.__init__
InitWindow ==
    /\ Shows(show_home(Blank), <<>>, FALSE, 0)
    /\ pkexec \in BOOLEAN

\* search_packages is not being called
NoSearch ==
    /\ system_arch = "x86_64"
    /\ cache = <<>>
    /\ search_query = <<>>
    /\ search_pc = "idle"
    /\ cursor = 0
    /\ seen = {}
    /\ results = <<>>

\* no credential prompt is open
NoPrompt ==
    /\ entry = <<>>
    /\ win_x = 0
    /\ shake_step = 0
    /\ cred_pc = "idle"
    /\ credential = <<>>
    /\ attempts = 0
    /\ cred_notices = <<>>
    /\ terminate = FALSE
    /\ task_started = FALSE

\* no progress indicator is running
NoProgress ==
    /\ progress = 0
    /\ prog_step = 1
    /\ task_done = FALSE
    /\ phase = "idle"
    /\ ticking = FALSE
    /\ completions = 0

\* what is reported while there is nothing to report
NoReport == [kind |-> "none", text |-> <<>>]

\* no privileged command is being run
NoCommand ==
    /\ run_pc = "idle"
    /\ output = <<>>
    /\ report = NoReport

\* load_installed is not running
NoListing ==
    /\ installed_cache = <<>>
    /\ installed_pc = "idle"
    /\ installed_pos = 0
    /\ app_list = <<>>
    /\ count = 0
    /\ installed_apps = <<>>

\* the parts of the program that a specification leaves at rest
Rest(search, prompt, prog, run, list) ==
    /\ search => NoSearch
    /\ prompt => NoPrompt
    /\ prog => NoProgress
    /\ run => NoCommand
    /\ list => NoListing

Init == InitWindow /\ Rest(TRUE, TRUE, TRUE, TRUE, TRUE)

\* the worker threads and the UI loop's queue
Background ==
    \/ RunIdle
    \/ \E t \in DOMAIN threads : Acquire(t)
    \/ \E t \in DOMAIN threads : Query(t)
    \/ \E t \in DOMAIN threads : do_load(t)

\* Spec: package requests.  The user clicks the buttons of the cards shown,
\* opens the updates view and clicks Update All
Next ==
    \/ ClickUpdates
    \/ install_package
    \/ uninstall_package
    \/ update_all_packages
    \/ show_package_info
    \/ CloseInfo
    \/ \E t \in DOMAIN threads : Which(t)
    \/ \E t \in DOMAIN threads : Launch(t)
    \/ \E t \in DOMAIN threads : Exit(t)
    \/ Background

Spec == Init /\ [][Next]_vars

\* SpecNav: navigation.  The user switches views, edits the search entry and
\* presses Enter
NextNav ==
    \/ ClickHome
    \/ \E category \in category_buttons : ClickCategory(category)
    \/ ClickInstalled
    \/ ClickUpdates
    \/ \E t \in Texts : on_search_changed(t)
    \/ Activate
    \/ TimerFire
    \/ \E t \in DOMAIN threads : EarlyReturn(t)
    \/ Background

\* navigation launches no command: pkexec is not looked up
InitNav == Init /\ pkexec = TRUE

SpecNav == InitNav /\ [][NextNav]_vars

\* SpecType: edits of the search entry.  The user has typed a text that is not
\* blank, its search is scheduled, and the user goes on typing
InitType ==
    /\ \E text \in {t \in Texts : strip(t) # <<>>} :
          Shows(show_home(Blank), text, TRUE, 1)
    /\ pkexec = TRUE
    /\ Rest(TRUE, TRUE, TRUE, TRUE, TRUE)

NextType ==
    \/ \E t \in Texts : on_search_changed(t)
    \/ TimerFire
    \/ \E t \in DOMAIN threads : EarlyReturn(t)
    \/ Background

SpecType == InitType /\ [][NextType]_vars

\* SpecLock: the lock around the cache.  The loaders of the home view and of
\* the searches contend for apt_lock.  A free lock that loaders wait for is
\* taken by one of them, and the query of the loader that holds it terminates
SpecLock ==
    /\ SpecType
    /\ WF_vars(\E t \in DOMAIN threads : Acquire(t))
    /\ WF_vars(\E t \in DOMAIN threads : Query(t))

\* SpecRefresh: refresh_current_view, called for the notice of a request that
\* succeeded, in each view the window can display.  The window shows a view
\* built by the handler of that view.  In the search view the entry holds any
\* text: an edit of the entry changes the text and leaves the view as it is.
\* The other views do not read the entry, which is left empty.
Displayed ==
    {show_home(Blank), show_installed(Blank), show_updates(Blank)}
    \cup {show_category(Blank, category) : category \in Range(APP_CATEGORIES)}
    \cup {on_search(Blank, text) : text \in {t \in Texts : strip(t) # <<>>}}

InitRefresh ==
    /\ \E u \in Displayed :
       \E text \in (IF u.view = "search" THEN Texts ELSE {<<>>}) :
          Shows(u, text, u.view = "search", 0)
    /\ pkexec = TRUE
    /\ Rest(TRUE, TRUE, TRUE, TRUE, TRUE)

\* the call self.refresh_current_view() that ends show_install_success,
\* show_uninstall_success and show_update_success
Refresh ==
    /\ UNCHANGED other
    /\ CanRequest
    /\ requests' = requests + 1
    /\ Becomes(refresh_current_view(Window, search_text))
    /\ UNCHANGED <<info_dialog, search_text, has_timeout, timer_pending, apt_lock,
                   uninstalls, found, clicks, enters, pkexec>>

NextRefresh ==
    \/ Refresh
    \/ \E t \in DOMAIN threads : EarlyReturn(t)
    \/ Background

SpecRefresh == InitRefresh /\ [][NextRefresh]_vars

\* SpecLate: results that arrive late.  The window shows a view whose load is
\* in flight, and the user clicks a view button or a category button
NextLate ==
    \/ ClickHome
    \/ \E category \in category_buttons : ClickCategory(category)
    \/ ClickInstalled
    \/ ClickUpdates
    \/ \E t \in DOMAIN threads : EarlyReturn(t)
    \/ Background

SpecLate == InitRefresh /\ [][NextLate]_vars

---------------------------------------------------------------------------
(* LASWindow.search_packages.  A string is a sequence of characters; of each
   result tuple (pkg_name, description, is_installed) the name is kept. *)

\* str.lower
lower(str) == [i \in DOMAIN str |-> IF str[i] = "V" THEN "v" ELSE str[i]]

\* str.endswith
endswith(str, suffix) ==
    /\ Len(suffix) <= Len(str)
    /\ SubSeq(str, Len(str) - Len(suffix) + 1, Len(str)) = suffix

\* str.startswith
startswith(str, prefix) ==
    /\ Len(prefix) <= Len(str)
    /\ SubSeq(str, 1, Len(prefix)) = prefix

\* `sub in str`
contains(sub, str) ==
    \E i \in 0..(Len(str) - Len(sub)) : SubSeq(str, i + 1, i + Len(sub)) = sub

\* f":{arch}"
Suffix(arch) ==
    CASE arch = "amd64" -> <<":", "a", "m", "d", "6", "4">>
      [] arch = "i386" -> <<":", "i", "3", "8", "6">>
      [] arch = "armhf" -> <<":", "a", "r", "m", "h", "f">>
      [] arch = "aarch64" -> <<":", "a", "a", "r", "c", "h", "6", "4">>
      [] OTHER -> <<>>

\* native_arch = "amd64" if system_arch == "x86_64" else system_arch
native_arch(machine) == IF machine = "x86_64" THEN "amd64" ELSE machine

\* re.sub(r'(:amd64|:i386)$', '', pkg_name)
base_name(pkg_name) ==
    IF endswith(pkg_name, Suffix("amd64"))
    THEN SubSeq(pkg_name, 1, Len(pkg_name) - Len(Suffix("amd64")))
    ELSE IF endswith(pkg_name, Suffix("i386"))
    THEN SubSeq(pkg_name, 1, Len(pkg_name) - Len(Suffix("i386")))
    ELSE pkg_name

\* query.lower() in pkg_name.lower() or pkg_name.lower().startswith(query.lower())
Matches(query, pkg_name) ==
    \/ contains(lower(query), lower(pkg_name))
    \/ startswith(lower(pkg_name), lower(query))

\* pkg_name.endswith(f":{native_arch}") or not any(pkg_name.endswith(f":{arch}")
\* for arch in ["amd64", "i386"])
Preferred(machine, pkg_name) ==
    \/ endswith(pkg_name, Suffix(native_arch(machine)))
    \/ ~\E arch \in {"amd64", "i386"} : endswith(pkg_name, Suffix(arch))

\* the hosts: an amd64 one and an arm64 one
Machines == {"x86_64", "aarch64"}

\* the architectures dpkg can have added to a host, besides its own
ForeignArchs(machine) ==
    IF machine = "x86_64" THEN {"i386", "armhf"} ELSE {"amd64", "i386", "armhf"}

BaseNames == {<<"v">>, <<"l">>}

\* pkg.name over the cache of a host: the bare name for a package of the host's
\* architecture, name:arch for one of a foreign architecture
PkgNames(machine) ==
    {b \o Suffix(arch) : b \in BaseNames, arch \in {""} \cup ForeignArchs(machine)}

\* a cache holds each package once
Caches(machine) ==
    UNION {{c \in [1..n -> PkgNames(machine)] :
               \A i, j \in 1..n : c[i] = c[j] => i = j} : n \in 0..MaxCache}

\* the queries tried: empty, a name in either case, a part of two architecture
\* suffixes, and one that the pattern rejects
Queries == {<<>>, <<"v">>, <<"V">>, <<"6">>, <<"+">>}

\* search_packages(query) is called
InitSearchCall ==
    /\ system_arch \in Machines
    /\ cache \in Caches(system_arch)
    /\ search_query \in Queries
    /\ search_pc = "entry"
    /\ cursor = 0
    /\ seen = {}
    /\ results = <<>>

Returns(list) ==
    /\ results' = list
    /\ search_pc' = "returned"
    /\ UNCHANGED <<system_arch, cache, search_query, cursor, seen>>
    /\ UNCHANGED notSearch

\* `if not query or not re.match(...): return []`
RejectQuery ==
    /\ search_pc = "entry"
    /\ search_query = <<>> \/ ~ValidQuery(search_query)
    /\ Returns(<<>>)

\* apt.Cache(), cache.update() or cache.open() raises: `except Exception`
\* returns []
CacheRaises ==
    /\ search_pc = "entry"
    /\ search_query # <<>> /\ ValidQuery(search_query)
    /\ Returns(<<>>)

\* `if len(cache) == 0: return []`
CacheEmpty ==
    /\ search_pc = "entry"
    /\ search_query # <<>> /\ ValidQuery(search_query)
    /\ Len(cache) = 0
    /\ Returns(<<>>)

\* the cache is open and not empty: the loop starts
CacheOpened ==
    /\ search_pc = "entry"
    /\ search_query # <<>> /\ ValidQuery(search_query)
    /\ Len(cache) > 0
    /\ search_pc' = "loop"
    /\ cursor' = 1
    /\ UNCHANGED <<system_arch, cache, search_query, seen, results>>
    /\ UNCHANGED notSearch

InLoop == search_pc = "loop" /\ cursor <= Len(cache)

Advance ==
    /\ cursor' = cursor + 1
    /\ UNCHANGED <<system_arch, cache, search_query, search_pc>>
    /\ UNCHANGED notSearch

\* `if base_name in seen: continue`
SkipSeen ==
    /\ InLoop
    /\ base_name(cache[cursor]) \in seen
    /\ Advance
    /\ UNCHANGED <<seen, results>>

\* the package does not match the query, or is of a foreign architecture
SkipOther ==
    /\ InLoop
    /\ base_name(cache[cursor]) \notin seen
    /\ ~(Matches(search_query, cache[cursor]) /\ Preferred(system_arch, cache[cursor]))
    /\ Advance
    /\ UNCHANGED <<seen, results>>

\* seen.add(base_name); results.append(...)
AppendResult ==
    /\ InLoop
    /\ base_name(cache[cursor]) \notin seen
    /\ Matches(search_query, cache[cursor])
    /\ Preferred(system_arch, cache[cursor])
    /\ seen' = seen \cup {base_name(cache[cursor])}
    /\ results' = Append(results, cache[cursor])
    /\ Advance

\* `return results`
ReturnResults ==
    /\ search_pc = "loop"
    /\ cursor > Len(cache)
    /\ Returns(results)

NextSearch ==
    \/ RejectQuery
    \/ CacheRaises
    \/ CacheEmpty
    \/ CacheOpened
    \/ SkipSeen
    \/ SkipOther
    \/ AppendResult
    \/ ReturnResults

InitSearch == InitWindow /\ pkexec = TRUE /\ Rest(FALSE, TRUE, TRUE, TRUE, TRUE) /\ InitSearchCall

SpecSearch == InitSearch /\ [][NextSearch]_vars

---------------------------------------------------------------------------
(* The credential prompt.  PasswordDialog (src/core/password_dialog.py) gives
   the entry, get_password, clear_password and shake; the flow that opens the
   dialog, validates the secret and counts the attempts follows the design
   document (4.1 Credential Prompt, 3 Attempt Counter). *)

\* the maximum number of attempts
MAX_ATTEMPTS == 3

\* the fixed lockout notice
LockoutMessage == "wrong password three times"

\* the secret that the privilege probe accepts
Secret == <<"s">>

\* what the user can type into the entry
Passwords == UNION {[1..n -> {"s", "x"}] : n \in 0..MaxSecret}

\* PasswordDialog.get_password: self.entry.get_text()
get_password_Known(text) == Secret

get_password(text) == text

\* PasswordDialog.clear_password: self.entry.set_text("")
clear_password_Keep(text) == text

clear_password(text) == <<>>

\* `for _ in range(3)` in PasswordDialog.shake
ShakeRounds == 3

\* win.move is called twice in each round and once after the loop
ShakeMoves == 2 * ShakeRounds + 1

\* the validation check: the probe must end in time with exit status 0, which
\* it does for the right secret only
validate(secret, timely) == timely /\ secret = Secret

\* the attempt counter has reached the maximum
MaxedOut_Never(n) == FALSE

MaxedOut(n) == n >= MAX_ATTEMPTS

\* the dialog is opened for a flow that starts with no attempt made
InitPrompt ==
    /\ entry = <<>>
    /\ win_x = 0
    /\ shake_step = 0
    /\ cred_pc = "prompt"
    /\ credential = <<>>
    /\ attempts = 0
    /\ cred_notices = <<>>
    /\ terminate = FALSE
    /\ task_started = FALSE

\* Gtk events are handled while the dialog waits and inside shake, in
\* `while Gtk.events_pending(): Gtk.main_iteration()`
HandlesEvents ==
    \/ cred_pc = "prompt"
    \/ cred_pc = "shake" /\ shake_step \in 1..(ShakeMoves - 1)

\* the user edits the entry
TypePassword(text) ==
    /\ HandlesEvents
    /\ text # entry
    /\ entry' = text
    /\ UNCHANGED <<win_x, shake_step, cred_pc, credential, attempts, cred_notices,
                   terminate, task_started>>
    /\ UNCHANGED notCred

\* OK: the entered value is handed to the validation check
Confirm ==
    /\ cred_pc = "prompt"
    /\ credential' = get_password(entry)
    /\ cred_pc' = "validating"
    /\ UNCHANGED <<entry, win_x, shake_step, attempts, cred_notices, terminate,
                   task_started>>
    /\ UNCHANGED notCred

\* Cancel: no credential, and the process is asked to terminate
Cancel ==
    /\ cred_pc = "prompt"
    /\ terminate' = TRUE
    /\ cred_pc' = "ended"
    /\ UNCHANGED <<entry, win_x, shake_step, credential, attempts, cred_notices,
                   task_started>>
    /\ UNCHANGED notCred

\* the secret is valid: the flow proceeds to the long-running task
Accept ==
    /\ cred_pc = "validating"
    /\ \E timely \in BOOLEAN : validate(credential, timely)
    /\ task_started' = TRUE
    /\ cred_pc' = "task"
    /\ UNCHANGED <<entry, win_x, shake_step, credential, attempts, cred_notices,
                   terminate>>
    /\ UNCHANGED notCred

\* the secret is invalid: count the attempt, clear the entry, shake
Reject ==
    /\ cred_pc = "validating"
    /\ \E timely \in BOOLEAN : ~validate(credential, timely)
    /\ attempts' = attempts + 1
    /\ entry' = clear_password(entry)
    /\ credential' = <<>>
    /\ cred_pc' = "shake"
    /\ shake_step' = 0
    /\ UNCHANGED <<win_x, cred_notices, terminate, task_started>>
    /\ UNCHANGED notCred

\* PasswordDialog.shake: win.move(x + 10, y), win.move(x - 10, y), three
\* times, then win.move(x, y)
ShakeMove ==
    /\ cred_pc = "shake"
    /\ shake_step < ShakeMoves
    /\ shake_step' = shake_step + 1
    /\ win_x' = IF shake_step' = ShakeMoves THEN 0
                ELSE IF shake_step' % 2 = 1 THEN 10 ELSE -10
    /\ UNCHANGED <<entry, cred_pc, credential, attempts, cred_notices, terminate,
                   task_started>>
    /\ UNCHANGED notCred

\* shake has returned: ask again, unless the attempts are used up
ShakeDone ==
    /\ cred_pc = "shake"
    /\ shake_step = ShakeMoves
    /\ shake_step' = 0
    /\ cred_pc' = IF MaxedOut(attempts) THEN "lockout" ELSE "prompt"
    /\ UNCHANGED <<entry, win_x, credential, attempts, cred_notices, terminate,
                   task_started>>
    /\ UNCHANGED notCred

\* the flow fails: the lockout notice, and the process is asked to terminate
Lockout ==
    /\ cred_pc = "lockout"
    /\ cred_notices' = Append(cred_notices, LockoutMessage)
    /\ terminate' = TRUE
    /\ cred_pc' = "ended"
    /\ UNCHANGED <<entry, win_x, shake_step, credential, attempts, task_started>>
    /\ UNCHANGED notCred

NextCred ==
    \/ \E text \in Passwords : TypePassword(text)
    \/ Confirm
    \/ Cancel
    \/ Accept
    \/ Reject
    \/ ShakeMove
    \/ ShakeDone
    \/ Lockout

InitCred == InitWindow /\ pkexec = TRUE /\ Rest(TRUE, FALSE, TRUE, TRUE, TRUE) /\ InitPrompt

SpecCred == InitCred /\ [][NextCred]_vars

---------------------------------------------------------------------------
(* The progress reflector, after the design document (4.3 Progress Reflector,
   3 Progress Value).  No source file holds it.  The value is counted in
   hundredths. *)

\* the soft ceiling, 0.80
SoftCeiling == 80

\* the full value, 1.0
Full == 100

Min(a, b) == IF a <= b THEN a ELSE b

\* priming: the value creeps toward the soft ceiling and never exceeds it
Creep_Unbounded(value, step) == value + step

Creep(value, step) == IF value >= SoftCeiling THEN value ELSE Min(value + step, SoftCeiling)

\* draining: the value goes on toward 1.0
Drain_Stalled(value, step) == value

Drain(value, step) == Min(value + step, Full)

\* the indicator starts for a task that has not signalled completion
InitProgress ==
    /\ progress = 0
    /\ prog_step \in 1..MaxStep
    /\ task_done = FALSE
    /\ phase = "priming"
    /\ ticking = TRUE
    /\ completions = 0

\* the background task signals completion
TaskCompletes ==
    /\ phase \in {"priming", "draining"}
    /\ ~task_done
    /\ task_done' = TRUE
    /\ UNCHANGED <<progress, prog_step, phase, ticking, completions>>
    /\ UNCHANGED notProg

\* a tick while the flag is not set: the value creeps
TickPriming ==
    /\ ticking
    /\ phase = "priming"
    /\ ~task_done
    /\ progress' = Creep(progress, prog_step)
    /\ UNCHANGED <<prog_step, task_done, phase, ticking, completions>>
    /\ UNCHANGED notProg

\* a tick that sees the flag set: the value drains, and at 1.0 the ticking
\* stops and the completion callback is called
TickDraining ==
    /\ ticking
    /\ phase \in {"priming", "draining"}
    /\ task_done
    /\ progress' = Drain(progress, prog_step)
    /\ IF progress' >= Full
       THEN /\ phase' = "done"
            /\ ticking' = FALSE
            /\ completions' = completions + 1
       ELSE /\ phase' = "draining"
            /\ UNCHANGED <<ticking, completions>>
    /\ UNCHANGED <<prog_step, task_done>>
    /\ UNCHANGED notProg

Tick == TickPriming \/ TickDraining

NextProg ==
    \/ TaskCompletes
    \/ TickPriming
    \/ TickDraining

InitProg == InitWindow /\ pkexec = TRUE /\ Rest(TRUE, TRUE, FALSE, TRUE, TRUE) /\ InitProgress

SpecProg == InitProg /\ [][NextProg]_vars

\* the tick timer fires at its interval for as long as it is scheduled
SpecProgLive == SpecProg /\ WF_vars(Tick)

---------------------------------------------------------------------------
(* The privileged command runner, after the design document (4.2 Privileged
   Command Runner).  No source file holds it.  The captured output is a
   sequence of pieces of text; the lock-contention marker "Could not get lock"
   spans two of them, so that finding it is a search for a substring. *)

\* the known lock-contention marker
LockMarker == <<"Could not get ", "lock">>

\* what the command can write: the two halves of the marker, and other text
Pieces == {"Could not get ", "lock", "E: ", "held by process 1"}

Outputs == UNION {[1..n -> Pieces] : n \in 0..MaxOutput}

\* the raw trailing output: its last piece
Trailing(text) == <<text[Len(text)]>>

\* the message for a command that exited non-zero
FailureMessage_Raw(text) ==
    IF text = <<>> THEN [kind |-> "generic", text |-> <<>>]
    ELSE [kind |-> "raw", text |-> Trailing(text)]

FailureMessage(text) ==
    IF contains(LockMarker, text) THEN [kind |-> "lock-contention", text |-> <<>>]
    ELSE IF text = <<>> THEN [kind |-> "generic", text |-> <<>>]
    ELSE [kind |-> "raw", text |-> Trailing(text)]

\* the runner is called with a secret and an argument vector
InitRunner ==
    /\ run_pc = "launch"
    /\ output = <<>>
    /\ report = NoReport

\* spawning the process or writing the secret raises: write-failed
WriteFails ==
    /\ run_pc = "launch"
    /\ run_pc' = "unstarted"
    /\ report' = [kind |-> "write-failed", text |-> <<>>]
    /\ UNCHANGED output
    /\ UNCHANGED notRun

\* the secret is written and the stream closed; the output is read to its end
ReadOutput ==
    /\ run_pc = "launch"
    /\ run_pc' = "running"
    /\ output' \in Outputs
    /\ UNCHANGED report
    /\ UNCHANGED notRun

\* exit code 0: success
ExitZero ==
    /\ run_pc = "running"
    /\ run_pc' = "succeeded"
    /\ UNCHANGED <<output, report>>
    /\ UNCHANGED notRun

\* a non-zero exit code: command-failed, with the message for the output
ExitNonZero ==
    /\ run_pc = "running"
    /\ run_pc' = "failed"
    /\ report' = FailureMessage(output)
    /\ UNCHANGED output
    /\ UNCHANGED notRun

NextRun ==
    \/ WriteFails
    \/ ReadOutput
    \/ ExitZero
    \/ ExitNonZero

InitRun == InitWindow /\ pkexec = TRUE /\ Rest(TRUE, TRUE, TRUE, FALSE, TRUE) /\ InitRunner

SpecRun == InitRun /\ [][NextRun]_vars

---------------------------------------------------------------------------
(* load_installed of show_installed (src/las.py 639-666), as a function of the
   packages the cache yields.  An entry of the list is the tuple
   (pkg.name, description, True, False); the description, which no condition
   of the loop reads, is left out. *)

\* the prefixes of the packages that the list leaves out
SystemPrefixes ==
    {<<"l", "i", "b">>,
     <<"p", "y", "t", "h", "o", "n", "3", "-">>,
     <<"g", "i", "r", "1", ".", "2", "-">>}

\* a list that leaves no package out by its name
is_system_Never(name) == FALSE

\* any(pkg.name.startswith(prefix) for prefix in ['lib', 'python3-', 'gir1.2-'])
is_system(name) == \E prefix \in SystemPrefixes : startswith(name, prefix)

\* how the names of the packages tried begin: with each of the three prefixes,
\* with a part of one, and with none
Stems == SystemPrefixes \cup {<<"l", "i">>, <<"v">>}

\* the decimal digits of n
RECURSIVE Digits(_)
Digits(n) ==
    LET digit == <<"0", "1", "2", "3", "4", "5", "6", "7", "8", "9">>[(n % 10) + 1]
    IN  IF n < 10 THEN <<digit>> ELSE Digits(n \div 10) \o <<digit>>

\* the kinds of package, by how the name begins and by pkg.is_installed: an
\* installed package of each stem, and one that is not installed
Kinds == (Stems \X {TRUE}) \cup {<<<<"v">>, FALSE>>}

\* a cache of n packages that repeats a pattern of kinds; the i-th package has
\* its number in its name, so that the cache holds each name once
Repeated(pattern, n) ==
    [i \in 1..n |->
        LET kind == pattern[((i - 1) % Len(pattern)) + 1]
        IN  [name |-> kind[1] \o Digits(i), is_installed |-> kind[2]]]

\* the sizes of the caches tried: a few packages, a few more than the limit,
\* and a few more than twice the limit
CacheSizes ==
    (0..MaxCache) \cup {InstalledLimit + MaxCache, 2 * InstalledLimit + MaxCache}

InstalledCaches ==
    {Repeated(pattern, n) :
        pattern \in UNION {[1..k -> Kinds] : k \in 1..MaxPeriod}, n \in CacheSizes}

\* load_installed is started
InitListing ==
    /\ installed_cache \in InstalledCaches
    /\ installed_pc = "entry"
    /\ installed_pos = 0
    /\ app_list = <<>>
    /\ count = 0
    /\ installed_apps = <<>>

\* apt.Cache(), cache.update() and cache.open() succeed: apps = [], count = 0
CacheOpens ==
    /\ installed_pc = "entry"
    /\ installed_pc' = "loop"
    /\ app_list' = <<>>
    /\ count' = 0
    /\ UNCHANGED <<installed_cache, installed_pos, installed_apps>>
    /\ UNCHANGED notList

\* one round of `for pkg in cache:`
NextPackage ==
    /\ installed_pc = "loop"
    /\ installed_pos < Len(installed_cache)
    /\ LET pkg == installed_cache[installed_pos + 1]
       IN  IF pkg.is_installed /\ count < InstalledLimit /\ ~is_system(pkg.name)
             THEN /\ app_list' = Append(app_list, <<pkg.name, TRUE, FALSE>>)
                  /\ count' = count + 1
             ELSE UNCHANGED <<app_list, count>>
    /\ installed_pos' = installed_pos + 1
    /\ UNCHANGED <<installed_cache, installed_pc, installed_apps>>
    /\ UNCHANGED notList

\* the loop ends: GLib.idle_add(self.finish_loading_installed, flowbox, apps)
ListReady ==
    /\ installed_pc = "loop"
    /\ installed_pos = Len(installed_cache)
    /\ installed_pc' = "done"
    /\ installed_apps' = app_list
    /\ UNCHANGED <<installed_cache, installed_pos, app_list, count>>
    /\ UNCHANGED notList

\* the cache raises, when it is opened or while it is read: the except clause
\* hands the empty list to finish_loading_installed
ListFails ==
    /\ installed_pc \in {"entry", "loop"}
    /\ installed_pc' = "done"
    /\ installed_apps' = <<>>
    /\ UNCHANGED <<installed_cache, installed_pos, app_list, count>>
    /\ UNCHANGED notList

NextList == CacheOpens \/ NextPackage \/ ListReady \/ ListFails

InitList ==
    InitWindow /\ pkexec = TRUE /\ Rest(TRUE, TRUE, TRUE, TRUE, FALSE) /\ InitListing

SpecList == InitList /\ [][NextList]_vars

---------------------------------------------------------------------------
(* Claims about the package requests (Spec) *)

\* the threads inside `with apt_lock:`
InCache == {t \in DOMAIN threads : threads[t].pc = "cs"}

\* the threads whose pkexec command is running
InCommand == {t \in DOMAIN threads : threads[t].pc = "running"}

\* C1, as stated: at most one package-database operation (cache query or
\* install/remove/upgrade command) is in flight, and each runs holding apt_lock
C1_OneOperationInFlight ==
    /\ Cardinality(InCache \cup InCommand) <= 1
    /\ \A t \in InCache \cup InCommand : apt_lock = t

\* C1, amended: every apt.Cache query runs holding apt_lock, so no two queries
\* overlap, and the lock is held by nobody else (the pkexec commands of install
\* and upgrade-all run without it)
C1_QueriesSerialized ==
    /\ \A t \in InCache : apt_lock = t /\ threads[t].kind \in Loaders
    /\ apt_lock # 0 => apt_lock \in InCache

\* a query holds the lock while the command of an install or an upgrade runs
C1_Witness ==
    /\ \E t \in InCache : apt_lock = t
    /\ InCommand # {}

\* what the user sees
Presentation ==
    <<current_view, current_category, active, spinner, main_box, info_dialog,
      [t \in DOMAIN threads |-> threads[t].notes]>>

\* what the catalog sees: the lock around the cache, and the commands launched
Catalog == <<apt_lock, [t \in DOMAIN threads |-> threads[t].cmds]>>

\* a step of a worker thread
WorkerStep ==
    \E t \in DOMAIN threads :
        \/ EarlyReturn(t) \/ Acquire(t) \/ Query(t)
        \/ Which(t) \/ Launch(t) \/ Exit(t) \/ do_load(t)

\* C2: a step of a worker thread changes no presentation state, and the cache
\* and the commands are touched by steps of worker threads only; what a worker
\* has to show goes through the idle queue
C2_WorkersLeavePresentation ==
    [][/\ WorkerStep => Presentation' = Presentation
       /\ Catalog' # Catalog /\ DOMAIN threads' = DOMAIN threads => WorkerStep]_vars

\* a loader's callback has filled a flowbox, another callback is queued, and a
\* request thread has launched its command
C2_Witness ==
    /\ Entries # {}
    /\ idle # <<>>
    /\ \E t \in DOMAIN threads : threads[t].cmds # <<>>

\* C3, as stated, for the install, uninstall and update-all workers: none ends
\* with an uncaught exception and no notice
C3_NoSilentDeath ==
    \A t \in DOMAIN threads : threads[t].kind \in Requests => threads[t].pc # "died"

\* C4, as stated: every uninstall request has started a do_uninstall worker
C4_UninstallStartsWorker ==
    uninstalls = Cardinality({t \in DOMAIN threads : threads[t].kind = "do_uninstall"})

\* the requests of a kind made, those still running, and the error notices
\* queued or shown for them
Requested(kind) ==
    IF kind = "do_uninstall" THEN uninstalls
    ELSE Cardinality({t \in DOMAIN threads : threads[t].kind = kind})

Running(kind) == {t \in Live : threads[t].kind = kind}

ErrorsDispatched(kind) ==
    Cardinality({i \in DOMAIN idle : idle[i].fn = ErrorOf(kind)})
    + Cardinality({t \in DOMAIN threads : ErrorOf(kind) \in Range(threads[t].notes)})

\* C5, as stated: on a host without pkexec no command is launched, and once no
\* request of a kind is running any more there is one error notice, queued or
\* shown, for each request of that kind
C5_NoPkexecIsReported ==
    ~pkexec =>
        /\ \A t \in DOMAIN threads : threads[t].cmds = <<>>
        /\ \A kind \in Requests :
              Running(kind) = {} => ErrorsDispatched(kind) = Requested(kind)

\* the notices fn of thread t that are queued or shown
Dispatched(t, fn) ==
    Cardinality({i \in DOMAIN idle : idle[i].tid = t /\ idle[i].fn = fn})
    + Cardinality({i \in DOMAIN threads[t].notes : threads[t].notes[i] = fn})

UpdateAlls == {t \in DOMAIN threads : threads[t].kind = "do_update_all"}

\* C14, as stated: the upgrade command is launched only after the update
\* command has exited with status 0; when the update command fails the upgrade
\* is never launched and one update-error notice is dispatched; the
\* update-success notice is dispatched only after both commands exited with 0
C14_UpdateThenUpgrade ==
    \A t \in UpdateAlls :
        LET th == threads[t]
        IN  /\ "upgrade" \in Range(th.cmds) =>
                  /\ th.cmds = <<"update", "upgrade">>
                  /\ th.exits # <<>> /\ th.exits[1] = 0
            /\ th.exits # <<>> /\ th.exits[1] # 0 =>
                  /\ th.cmds = <<"update">>
                  /\ Dispatched(t, "show_update_error") = 1
            /\ Dispatched(t, "show_update_success") > 0 => th.exits = <<0, 0>>

Installs == {t \in DOMAIN threads : threads[t].kind = "do_install"}

\* C15, as stated: an install whose command exited with status 0 gets one
\* success notice and no error notice, and showing it reloads the view; one
\* whose command exited with another status gets one error notice and no
\* success notice, and showing it leaves the view as it is
C15_InstallNotices ==
    /\ [](\A t \in Installs :
            /\ threads[t].exits = <<0>> =>
                  /\ Dispatched(t, "show_install_success") = 1
                  /\ Dispatched(t, "show_install_error") = 0
            /\ threads[t].exits = <<1>> =>
                  /\ Dispatched(t, "show_install_error") = 1
                  /\ Dispatched(t, "show_install_success") = 0)
    /\ [][RunIdle =>
            /\ Head(idle).fn = "show_install_success" => Len(threads') > Len(threads)
            /\ Head(idle).fn = "show_install_error" =>
                  /\ Len(threads') = Len(threads)
                  /\ <<current_view, main_box>>' = <<current_view, main_box>>]_vars

---------------------------------------------------------------------------
(* Claims about navigation (SpecNav) *)

SearchWorkers == {t \in DOMAIN threads : threads[t].kind = "update_results"}

\* C6: when on_search runs (Enter, or the timer) and the entry text is empty
\* after trimming, current_view becomes "home" and no search worker is started
C6_EmptySearchShowsHome ==
    [][(Activate \/ TimerFire) /\ strip(search_text) = <<>>
         => current_view' = "home" /\ SearchWorkers' = SearchWorkers]_vars

\* Enter was pressed on an empty entry: the home view is shown, reloaded by
\* four new loaders, and there is no search worker
C6_Witness ==
    /\ enters > 0
    /\ strip(search_text) = <<>>
    /\ current_view = "home"
    /\ Len(threads) >= 2 * (1 + PreviewCount)
    /\ SearchWorkers = {}

---------------------------------------------------------------------------
(* Claims about search_packages (SpecSearch) *)

\* a package name without its architecture suffix, whatever the architecture
ArchFree(pkg_name) ==
    IF ":" \in Range(pkg_name)
    THEN SubSeq(pkg_name, 1, (CHOOSE i \in DOMAIN pkg_name : pkg_name[i] = ":") - 1)
    ELSE pkg_name

\* the package is of the host's architecture: pkg.name carries no suffix
IsNative(pkg_name) == ":" \notin Range(pkg_name)

\* C7, as stated: the list returned holds at most one entry for each base
\* package name, and where a variant of the native architecture matches the
\* query, the entry of its base name is that variant
C7_OneEntryPerBaseName ==
    search_pc = "returned" =>
        /\ \A i, j \in DOMAIN results :
              ArchFree(results[i]) = ArchFree(results[j]) => i = j
        /\ \A i \in DOMAIN results :
              (\E k \in DOMAIN cache :
                  /\ IsNative(cache[k])
                  /\ ArchFree(cache[k]) = ArchFree(results[i])
                  /\ Matches(search_query, cache[k]))
              => IsNative(results[i])

---------------------------------------------------------------------------
(* Claims about the credential prompt (SpecCred) *)

\* C8: the attempt counter never exceeds the maximum; at most one lockout
\* notice is shown, only with the counter at the maximum, and a flow that has
\* ended with the counter at the maximum has shown exactly one
C8_CounterBoundedOneLockout ==
    /\ attempts <= MAX_ATTEMPTS
    /\ Len(cred_notices) <= 1
    /\ cred_notices # <<>> => attempts = MAX_ATTEMPTS
    /\ cred_pc = "ended" /\ attempts = MAX_ATTEMPTS => Len(cred_notices) = 1

\* three secrets were rejected and the one lockout notice is up
C8_Witness ==
    /\ attempts = MAX_ATTEMPTS
    /\ Len(cred_notices) = 1
    /\ cred_pc = "ended"

\* C9: the step that rejects a secret leaves the entry empty and the attempt
\* counter one higher than before
C9_RejectClearsAndCounts ==
    [][Reject => entry' = <<>> /\ attempts' = attempts + 1]_vars

\* a second secret, typed into the entry, has just been rejected
C9_Witness ==
    /\ cred_pc = "shake"
    /\ shake_step = 0
    /\ attempts = 2
    /\ entry = <<>>

\* C10: the task is started only by a secret the user entered and validation
\* accepted, before the maximum is reached, with no lockout notice and no
\* request to terminate; a flow that ended with the counter at the maximum has
\* shown the fixed notice, asked the process to terminate, and the task is
\* never started once the maximum is reached
C10_AcceptedOrLockedOut ==
    /\ task_started =>
          /\ cred_pc = "task"
          /\ entry = Secret
          /\ attempts < MAX_ATTEMPTS
          /\ cred_notices = <<>>
          /\ ~terminate
    /\ attempts >= MAX_ATTEMPTS =>
          /\ cred_pc \in {"shake", "lockout", "ended"}
          /\ ~task_started
    /\ cred_pc = "ended" /\ attempts = MAX_ATTEMPTS =>
          /\ cred_notices = <<LockoutMessage>>
          /\ terminate

\* the secret was rejected once and accepted on the second attempt of three
C10_Witness ==
    /\ task_started
    /\ attempts = 1
    /\ cred_notices = <<>>

---------------------------------------------------------------------------
(* Claims about the progress reflector (SpecProg, SpecProgLive) *)

\* C11: no step lowers the progress value, and while the completion flag is
\* not set the value is at most the soft ceiling 0.80
C11_MonotoneBelowCeiling ==
    /\ [](~task_done => progress <= SoftCeiling)
    /\ [][progress' >= progress]_vars

\* the value has crept up to the soft ceiling, by a step that does not divide
\* it, and waits there for the flag
C11_Witness ==
    /\ progress = SoftCeiling
    /\ ~task_done
    /\ SoftCeiling % prog_step # 0

\* C12: once the completion flag is set the value reaches 1.0, the ticking has
\* then stopped and the completion callback has been called once; it is never
\* called a second time, and never while the flag is not set
C12_CompletesOnce ==
    /\ task_done ~> (progress = Full /\ ~ticking /\ completions = 1)
    /\ [](~ticking => progress = Full /\ completions = 1)
    /\ [](completions <= 1)
    /\ [](completions > 0 => task_done)

\* the flag was set below the ceiling, the value drained to 1.0 and the
\* callback was called
C12_Witness ==
    /\ phase = "done"
    /\ progress = Full
    /\ completions = 1
    /\ ~ticking

---------------------------------------------------------------------------
(* Claims about the privileged command runner (SpecRun) *)

\* C13: for a failed command whose captured output contains "Could not get
\* lock", the message reported is the lock-contention message, whatever else
\* the output holds: not the raw trailing output, not the generic fallback
C13_LockContentionMessage ==
    run_pc = "failed" /\ contains(LockMarker, output) =>
        report = [kind |-> "lock-contention", text |-> <<>>]

\* a command has failed with the marker in the middle of its output, other
\* text before and after it, and the lock-contention message is reported
C13_Witness ==
    /\ run_pc = "failed"
    /\ Len(output) = 4
    /\ SubSeq(output, 2, 3) = LockMarker
    /\ output[4] = "held by process 1"
    /\ report.kind = "lock-contention"

---------------------------------------------------------------------------
(* Claims about refresh_current_view (SpecRefresh) *)

\* C16, as stated: refresh_current_view leaves current_view as it was and, in
\* a category view, current_category too
C16_RefreshKeepsView ==
    [][Refresh =>
          /\ current_view' = current_view
          /\ current_view = "category" => current_category' = current_category]_vars

---------------------------------------------------------------------------
(* Claims about the debounce of the search entry (SpecType) *)

\* C17: at most one search is scheduled at any time, and only for a text that
\* is not blank; an edit of the entry leaves one search scheduled when the new
\* text is not blank and none when it is; only an edit schedules a search; and
\* the timeout that fires starts one search, for the text then in the entry
C17_Debounced ==
    /\ [](timer_pending <= 1)
    /\ [](timer_pending = 1 => strip(search_text) # <<>>)
    /\ [][/\ search_text' # search_text =>
               timer_pending' = (IF strip(search_text') # <<>> THEN 1 ELSE 0)
          /\ timer_pending' > timer_pending => search_text' # search_text
          /\ TimerFire =>
               /\ timer_pending' = 0
               /\ Len(threads') = Len(threads) + 1
               /\ threads'[Len(threads')].kind = "update_results"
               /\ threads'[Len(threads')].query = strip(search_text)]_vars

\* the entry was edited while a search was scheduled, and the one search that
\* was started since is for the text now in the entry
C17_Witness ==
    /\ clicks = 1
    /\ timer_pending = 0
    /\ Cardinality(SearchWorkers) = 1
    /\ \A t \in SearchWorkers :
          threads[t].pc = "start" /\ threads[t].query = strip(search_text)

---------------------------------------------------------------------------
(* Claims about the lock around the cache (SpecLock) *)

\* the loaders that wait for apt_lock
Waiting ==
    {t \in DOMAIN threads :
        /\ threads[t].kind \in Loaders
        /\ threads[t].pc = "start"
        /\ threads[t].kind = "update_results" => ValidQuery(threads[t].query)}

\* the loaders whose query has ended, by its normal path or by an exception
Queried ==
    {t \in DOMAIN threads : threads[t].kind \in Loaders /\ threads[t].pc = "done"}

\* C18: whenever no worker is inside a cache query apt_lock is free; the step
\* by which a worker leaves its query, normally or by an exception, frees the
\* lock; and the workers that wait for the lock all acquire it in the end
C18_LockReleased ==
    /\ [](InCache = {} => apt_lock = 0)
    /\ [][\A t \in InCache : t \notin InCache' => apt_lock' = 0]_vars
    /\ <>[](Waiting = {})

\* two queries have ended, a third loader holds the lock that they released
\* and another one waits for it
C18_Witness ==
    /\ Cardinality(Queried) >= 2
    /\ \E t \in InCache : apt_lock = t
    /\ Waiting # {}

---------------------------------------------------------------------------
(* Claims about the installed list (SpecList) *)

\* the packages of the cache that are installed and that no prefix leaves out
Listable ==
    {i \in DOMAIN installed_cache :
        installed_cache[i].is_installed /\ ~is_system(installed_cache[i].name)}

\* C19: the list built for the installed view, and the list handed to the
\* view, hold only packages of the cache that are installed, marked installed;
\* they hold at most 100 entries; and no name in them starts with 'lib',
\* 'python3-' or 'gir1.2-'
C19_InstalledList ==
    \A list \in {app_list, installed_apps} :
        /\ Len(list) <= 100
        /\ \A k \in DOMAIN list :
              /\ \E i \in DOMAIN installed_cache :
                    /\ installed_cache[i].name = list[k][1]
                    /\ installed_cache[i].is_installed
              /\ list[k][2] = TRUE
              /\ ~startswith(list[k][1], <<"l", "i", "b">>)
              /\ ~startswith(list[k][1], <<"p", "y", "t", "h", "o", "n", "3", "-">>)
              /\ ~startswith(list[k][1], <<"g", "i", "r", "1", ".", "2", "-">>)

\* a cache with more than 100 installed packages that no prefix leaves out,
\* mixed with installed lib packages, has been read to the end: the list
\* handed to the view is full
C19_Witness ==
    /\ installed_pc = "done"
    /\ Len(installed_apps) = 100
    /\ Cardinality(Listable) > 100
    /\ \E i \in DOMAIN installed_cache :
          /\ installed_cache[i].is_installed
          /\ startswith(installed_cache[i].name, <<"l", "i", "b">>)

---------------------------------------------------------------------------
(* Claims about the preview sections of the home view (SpecNav) *)

\* the callback that the UI loop runs next was queued by the worker started
\* for the i-th preview section, and that section is still shown
PreviewCallback(i) ==
    /\ idle # <<>>
    /\ Head(idle).fn = "populate_flowbox"
    /\ Head(idle).idx = i
    /\ Head(idle).att

\* C20, as stated: each preview section of the home view is populated at most
\* once, and the callback of the worker started for a section populates that
\* section's flowbox and no other
C20_PreviewsOwnSection ==
    /\ [](\A c \in Range(PreviewCats) \cap DOMAIN main_box.boxes :
              Len(main_box.boxes[c]) <= 1)
    /\ [][\A i \in 1..PreviewCount :
            RunIdle /\ PreviewCallback(i) =>
               /\ Len(main_box'.boxes[PreviewCats[i]]) = 1
               /\ \A c \in DOMAIN main_box.boxes \ {PreviewCats[i]} :
                     main_box'.boxes[c] = main_box.boxes[c]]_vars

---------------------------------------------------------------------------
(* Claims about the results that arrive late (SpecLate) *)

\* the completion callbacks of the category, installed, updates and search loads
Completions == {"finish_loading", "finish_installed", "finish_search"}

\* the callback that the UI loop runs next completes a load whose view has
\* been left: clear_main_content has removed its flowbox from main_box
LateCompletion ==
    /\ idle # <<>>
    /\ Head(idle).fn \in Completions
    /\ ~Head(idle).att

\* C21, as stated: the completion callback of a load whose view the user has
\* left adds no widget to the content of the view now displayed
C21_LateResultAddsNothing ==
    [][RunIdle /\ LateCompletion => main_box' = main_box]_vars

\* the loads that start the spinner
SpinnerLoads == {"load_category", "load_installed", "load_updates", "update_results"}

\* a load that started the spinner has not delivered its completion callback:
\* its thread is running, or its callback waits in the queue of the UI loop
LoadPending ==
    \/ \E t \in Live : threads[t].kind \in SpinnerLoads
    \/ \E k \in DOMAIN idle : idle[k].fn \in Completions

\* C22, as stated: while a category, installed, updates or search load that
\* started the spinner has not delivered its completion callback, the spinner
\* is running
C22_SpinnerReflectsLoads == LoadPending => spinner = TRUE

---------------------------------------------------------------------------
(* Claims about the search view and the category buttons (SpecType, SpecLate) *)

\* C23, as stated: once the pending timeouts have run, the window does not
\* show the search view with an empty search entry
C23_EmptyEntryLeavesSearch ==
    current_view = "search" /\ search_text = <<>> => timer_pending > 0

\* C24, as stated: exactly one category button is marked active, it is the
\* button of current_category, and while the home view is displayed the
\* active button is "All"
C24_ActiveButtonAgrees ==
    /\ Cardinality(active) = 1
    /\ active = {current_category}
    /\ current_view = "home" => active = {"All"}

====
